---- MODULE Spec2Model ----
(***************************************************************************)
(* ehmi: custom egui widgets (Bar, Gauge, ToggleSwitch).                   *)
(*                                                                         *)
(* A widget is built by a chain of builder calls and consumed by           *)
(* Widget::ui, which draws it through the host painter.  The model keeps   *)
(* the widget under construction in `w`, the result of the last ui call    *)
(* (response, draw operations, panic) in `out`, and the caller-owned       *)
(* boolean every ToggleSwitch is bound to in `on`.                         *)
(*                                                                         *)
(* Numbers.  f32/f64 quantities are finite numbers; values, range ends and *)
(* angles are integers; the Gauge's arrow length factor, pointer radius,   *)
(* stroke width, arrow width and tick size are in hundredths (0.1 is 10,   *)
(* 1.3 is 130, 1.0 is 100).  A quotient is kept exact as a pair num/den;   *)
(* the one non-finite outcome the widgets can produce themselves, a        *)
(* division by a zero span, is kept as den = 0.                            *)
(***************************************************************************)
EXTENDS Integers, Sequences, FiniteSets, TLC

VARIABLES
    on,       \* the caller-owned bool behind `&mut bool` (demo: toggle1)
    on0,      \* the value `on` had when the program started
    clicks,   \* number of ToggleSwitch::ui calls whose response reported a click
    frame,    \* [drawn, clicked]: toggles drawn / clicks reported in this frame
    w,        \* the widget under construction ([kind |-> "none"] when none)
    chain,    \* number of builder calls made on `w` since new()
    out       \* what the last ui call did ([kind |-> "none"] before any)

vars == <<on, on0, clicks, frame, w, chain, out>>

\* ------------------------------------------------------------------ bounds

\* longest chain of builder calls after new()
MaxChain == 2
\* most clicks the host reports over a run
MaxClicks == 3
\* most ToggleSwitch widgets drawn in one frame (the demo draws six)
MaxPerFrame == 3
\* largest tick count passed to ticks()
MaxTicks == 3

\* --------------------------------------------------------------- constants

I16_MIN == -32768
I16_MAX == 32767
ANGLE_LIMIT == 360
ARROW_FACTOR_MAX == 130
ARROW_THRESHOLD == 10
POINTER_RADIUS_MIN == 100
ARC_STEPS == 30
FULL_CIRCLE == 360
BAR_HEIGHT == 240

\* ------------------------------------------------------------ input domains

GaugeValues == {-5, 0, 3, 20, 25}
RangeArgs == {0, 10, 20}
AngleArgs == {-400, 0, 10, 180, 400}
FactorArgs == {-50, 0, 9, 10, 200}
RadiusArgs == {0, 100, 500}
TickArgs == 0..MaxTicks
BarValues == {-5, 0, 3, 20, 25}
WidthArgs == {80}
Labels == {"Hello"}
Styles == {"Button", "Relay", "Valve"}
SizeArgs == {"100x30"}
\* the angles paint_arc is given: angle_range keeps both ends in -360..=360
ArcAngles == (0 - ANGLE_LIMIT)..ANGLE_LIMIT

\* the start angles tried with every end angle: every 15th degree;
\* -360 alone gives every span 1..720
ArcStarts == {a \in ArcAngles : a % 15 = 0}

ColorArgs == {"RED"}
GaugeSizeArgs == {100}
StrokeArgs == {300}
FontArgs == {40}
BarSizeArgs == {10}

\* ---------------------------------------------------------------- numerics

\* f32::clamp / Ord::clamp: `assert!(min <= max)`, then the two comparisons
ClampPanics(lo, hi) == ~(lo <= hi)

\* a clamp that forgets the upper bound
Clamp_no_upper(v, lo, hi) == IF v < lo THEN lo ELSE v

Clamp(v, lo, hi) == IF v < lo THEN lo ELSE IF v > hi THEN hi ELSE v

Max(a, b) == IF a >= b THEN a ELSE b

Abs(a) == IF a < 0 THEN -a ELSE a

\* truncation towards zero of p / q, q # 0 (the finite part of `as i16`)
TruncDiv(p, q) ==
    LET n == IF q < 0 THEN -p ELSE p
        d == Abs(q)
    IN  IF n >= 0 THEN n \div d ELSE -((-n) \div d)

\* f64::round of p / q, q > 0: to the nearest integer, halves away from zero
RoundDiv(p, q) ==
    IF p >= 0 THEN (2 * p + q) \div (2 * q) ELSE -((2 * (-p) + q) \div (2 * q))

\* `x as i16` for a finite x: saturating
SatI16(x) == Clamp(x, I16_MIN, I16_MAX)

\* i16 arithmetic wraps in release builds (two's complement)
WrapI16(x) == ((x - I16_MIN) % 65536) + I16_MIN

\* i16 subtraction `a - b`
I16Sub(a, b) == WrapI16(a - b)

\* ------------------------------------------------------------------- Gauge

NoWidget == [kind |-> "none"]

Gauge_new(value) ==
    [kind |-> "gauge",
     value |-> value,
     value_range |-> [start |-> 0, end |-> 100],
     size |-> 200,
     angle_range |-> [start |-> 0, end |-> 180],
     stroke_width |-> 150,
     text |-> "None",
     bg_color |-> "None",
     fg_color |-> "SUCCESS",
     text_color |-> "None",
     arrow_length_factor |-> 80,
     arrow_width |-> 300,
     ticks |-> 9,
     tick_size |-> 300,
     pointer_radius |-> 300]

Gauge_range(g, start, end) ==
    [g EXCEPT !.value_range = [start |-> start, end |-> end]]

\* an angle range stored as given, neither end clamped
Gauge_angle_range_unclamped(g, start, end) ==
    [g EXCEPT !.angle_range = [start |-> start, end |-> end]]

\* an angle range whose end is stored as given
Gauge_angle_range_start_only(g, start, end) ==
    [g EXCEPT !.angle_range =
        [start |-> Clamp(start, -ANGLE_LIMIT, ANGLE_LIMIT), end |-> end]]

Gauge_angle_range(g, start, end) ==
    [g EXCEPT !.angle_range =
        [start |-> Clamp(start, -ANGLE_LIMIT, ANGLE_LIMIT),
         end |-> Clamp(end, -ANGLE_LIMIT, ANGLE_LIMIT)]]

Gauge_ticks(g, n) == [g EXCEPT !.ticks = n]

Gauge_pointer_radius(g, size) ==
    [g EXCEPT !.pointer_radius = Max(size, POINTER_RADIUS_MIN)]

Gauge_arrow_length_factor(g, factor) ==
    [g EXCEPT !.arrow_length_factor = Clamp(factor, 0, ARROW_FACTOR_MAX)]

Gauge_text(g, text) == [g EXCEPT !.text = text]

Gauge_size(g, size) == [g EXCEPT !.size = size]

Gauge_bg_color(g, color) == [g EXCEPT !.bg_color = color]

Gauge_fg_color(g, color) == [g EXCEPT !.fg_color = color]

Gauge_text_color(g, color) == [g EXCEPT !.text_color = color]

\* a stroke width stored in the size field
Gauge_stroke_width_as_size(g, stroke_width) == [g EXCEPT !.size = stroke_width]

Gauge_stroke_width(g, stroke_width) == [g EXCEPT !.stroke_width = stroke_width]

\* the i16 difference `max_angle - min_angle` of value_to_angle and paint_ticks
angle_span(g) == I16Sub(g.angle_range.end, g.angle_range.start)

\* normalized = (v - min_value) / (max_value - min_value) for v = vn / vd, vd > 0
normalized(g, vn, vd) ==
    [num |-> vn - g.value_range.start * vd,
     den |-> vd * (g.value_range.end - g.value_range.start)]

\* the quotient taken in integers before it is scaled: normalized is 0 or 1
value_to_angle_int_div(g, vn, vd) ==
    LET max_angle == g.angle_range.end
        r == angle_span(g)
        n == normalized(g, vn, vd)
    IN  IF n.den = 0
        THEN IF n.num = 0 \/ r = 0 THEN 0
             ELSE IF (n.num > 0) = (r > 0) THEN I16_MIN ELSE I16_MAX
        ELSE SatI16(max_angle - TruncDiv(n.num, n.den) * r)

\* the mapping measured from the minimum angle: min_angle + normalized * angle_range
value_to_angle_from_min(g, vn, vd) ==
    LET min_angle == g.angle_range.start
        r == angle_span(g)
        n == normalized(g, vn, vd)
    IN  IF n.den = 0
        THEN IF n.num = 0 \/ r = 0 THEN 0
             ELSE IF (n.num > 0) = (r > 0) THEN I16_MAX ELSE I16_MIN
        ELSE SatI16(TruncDiv(min_angle * n.den + n.num * r, n.den))

\* (f64::from(max_angle) - normalized * angle_range) as i16, for v = vn / vd.
\* A zero divisor gives NaN (0/0, or inf * 0) or an infinity; `as i16` turns
\* NaN into 0 and saturates an infinity.
value_to_angle(g, vn, vd) ==
    LET max_angle == g.angle_range.end
        r == angle_span(g)
        n == normalized(g, vn, vd)
    IN  IF n.den = 0
        THEN IF n.num = 0 \/ r = 0 THEN 0
             ELSE IF (n.num > 0) = (r > 0) THEN I16_MIN ELSE I16_MAX
        ELSE SatI16(TruncDiv(max_angle * n.den - n.num * r, n.den))

RECURSIVE arc_loop(_, _, _, _)
\* `while angle <= end_angle { points.push(..angle..); angle += step; }`
arc_loop(angle, end_angle, step, points) ==
    IF angle <= end_angle
    THEN arc_loop(WrapI16(angle + step), end_angle, step, Append(points, angle))
    ELSE [points |-> points, angle |-> angle]

\* a paint_arc that closes the path with end_angle whatever the loop pushed
paint_arc_always_close(start_angle, end_angle, color) ==
    IF start_angle >= end_angle
    THEN [op |-> "arc", drawn |-> FALSE, from |-> start_angle, to |-> end_angle,
          step |-> 0, points |-> <<>>, angle |-> start_angle, color |-> color]
    ELSE LET step == Max(TruncDiv(I16Sub(end_angle, start_angle), ARC_STEPS), 1)
             l == arc_loop(start_angle, end_angle, step, <<>>)
             pts == Append(l.points, end_angle)
         IN  [op |-> "arc", drawn |-> pts # <<>>, from |-> start_angle,
              to |-> end_angle, step |-> step, points |-> pts,
              angle |-> l.angle, color |-> color]

\* paint_arc: the angles of the path's points; drawn is FALSE on the early return
paint_arc(start_angle, end_angle, color) ==
    IF start_angle >= end_angle
    THEN [op |-> "arc", drawn |-> FALSE, from |-> start_angle, to |-> end_angle,
          step |-> 0, points |-> <<>>, angle |-> start_angle, color |-> color]
    ELSE LET step == Max(TruncDiv(I16Sub(end_angle, start_angle), ARC_STEPS), 1)
             l == arc_loop(start_angle, end_angle, step, <<>>)
             pts == IF l.angle - step < end_angle
                    THEN Append(l.points, end_angle) ELSE l.points
         IN  [op |-> "arc", drawn |-> pts # <<>>, from |-> start_angle,
              to |-> end_angle, step |-> step, points |-> pts,
              angle |-> l.angle, color |-> color]

\* the draw calls of an arc: one path, or none
arc_ops(a) == IF a.drawn THEN <<a>> ELSE <<>>

RECURSIVE ticks_loop(_, _, _)
\* `for i in 0..self.ticks { .. }` of paint_ticks, from index i on
ticks_loop(g, i, ops) ==
    IF i >= g.ticks THEN ops
    ELSE IF i = g.ticks - 1 /\ angle_span(g) >= FULL_CIRCLE
    THEN ticks_loop(g, i + 1, ops)
    ELSE LET k == g.ticks - 1
             \* tick_value = start + step * i, step = (end - start) / (ticks - 1)
             tn == g.value_range.start * k
                   + (g.value_range.end - g.value_range.start) * i
             angle == value_to_angle(g, tn, k)
             line == IF g.ticks >= 2
                     THEN <<[op |-> "tick_line", angle |-> angle]>> ELSE <<>>
             label == [op |-> "tick_text", angle |-> angle,
                       label |-> RoundDiv(tn, k)]
         IN  ticks_loop(g, i + 1, ops \o line \o <<label>>)

paint_ticks(g) == ticks_loop(g, 0, <<>>)

paint_point(g, angle) ==
    [op |-> "point", angle |-> angle, radius |-> g.pointer_radius,
     color |-> g.fg_color]

paint_arrow(g, angle) ==
    <<[op |-> "arrow_line", angle |-> angle, factor |-> g.arrow_length_factor],
      [op |-> "hub", radius |-> (g.pointer_radius * 8) \div 10]>>

paint_text(g) == [op |-> "text", text |-> g.text]

\* `if self.arrow_length_factor < 0.1 { paint_point(current); paint_point(max) }`
paint_dots(g, current_angle) ==
    IF g.arrow_length_factor < ARROW_THRESHOLD
    THEN <<paint_point(g, current_angle), paint_point(g, g.angle_range.end)>>
    ELSE <<>>

\* `if self.ticks >= 2 { self.paint_ticks(ui, rect); }`
paint_tick_marks(g) == IF g.ticks >= 2 THEN paint_ticks(g) ELSE <<>>

\* the arrow drawn only above the threshold
paint_pointer_strict(g, current_angle) ==
    IF g.arrow_length_factor > ARROW_THRESHOLD
    THEN paint_arrow(g, current_angle) ELSE <<>>

\* `if self.arrow_length_factor >= 0.1 { self.paint_arrow(ui, rect, current_angle); }`
paint_pointer(g, current_angle) ==
    IF g.arrow_length_factor >= ARROW_THRESHOLD
    THEN paint_arrow(g, current_angle) ELSE <<>>

\* arcs with the foreground drawn from the low end up to the pointer
paint_arcs_from_min(g, current_angle) ==
    LET min_angle == g.angle_range.start
        max_angle == g.angle_range.end
        bg_color == IF g.bg_color # "None" THEN g.bg_color ELSE "EXTREME_BG"
    IN  arc_ops(paint_arc(min_angle, max_angle, bg_color))
        \o arc_ops(paint_arc(min_angle, current_angle, g.fg_color))

\* the two paint_arc calls of Gauge::paint: background, then foreground
paint_arcs(g, current_angle) ==
    LET min_angle == g.angle_range.start
        max_angle == g.angle_range.end
        bg_color == IF g.bg_color # "None" THEN g.bg_color ELSE "EXTREME_BG"
    IN  arc_ops(paint_arc(min_angle, max_angle, bg_color))
        \o arc_ops(paint_arc(current_angle, max_angle, g.fg_color))

\* a paint that returns early on a zero value span
paint_guarded(g, value) ==
    LET current_angle == value_to_angle(g, value, 1)
    IN  IF g.value_range.start = g.value_range.end THEN <<>>
        ELSE paint_arcs(g, current_angle)
             \o paint_dots(g, current_angle)
             \o paint_tick_marks(g)
             \o paint_pointer(g, current_angle)
             \o (IF g.text # "None" THEN <<paint_text(g)>> ELSE <<>>)

\* Gauge::paint: the draw calls, in order
paint(g, value) ==
    LET current_angle == value_to_angle(g, value, 1)
    IN  paint_arcs(g, current_angle)
        \o paint_dots(g, current_angle)
        \o paint_tick_marks(g)
        \o paint_pointer(g, current_angle)
        \o (IF g.text # "None" THEN <<paint_text(g)>> ELSE <<>>)

\* <Gauge as Widget>::ui: clamp (which panics on start > end), then paint
Gauge_ui_result(g, visible) ==
    IF ClampPanics(g.value_range.start, g.value_range.end)
    THEN [kind |-> "gauge", self |-> g, panicked |-> TRUE, visible |-> visible,
          value |-> g.value, ops |-> <<>>]
    ELSE LET value == Clamp(g.value, g.value_range.start, g.value_range.end)
         IN  [kind |-> "gauge", self |-> g, panicked |-> FALSE,
              visible |-> visible, value |-> value,
              ops |-> IF visible THEN paint(g, value) ELSE <<>>]

\* --------------------------------------------------------------------- Bar

None == [some |-> FALSE]

Some(x) == [some |-> TRUE, v |-> x]

Bar_new(value) ==
    [kind |-> "bar",
     text |-> "",
     value |-> value,
     font_size |-> 16,
     label_size |-> 10,
     bar_size |-> 5,
     fg_color |-> "SUCCESS",
     min |-> 0,
     max |-> 100,
     vertical |-> None,
     ticks |-> 0]

Bar_range(b, start, end) == [b EXCEPT !.min = start, !.max = end]

Bar_vertical(b, max_width) == [b EXCEPT !.vertical = Some(max_width)]

Bar_ticks(b, n) == [b EXCEPT !.ticks = n]

Bar_text(b, text) == [b EXCEPT !.text = text]

Bar_font_size(b, font_size) == [b EXCEPT !.font_size = font_size]

Bar_label_size(b, font_size) == [b EXCEPT !.label_size = font_size]

Bar_bar_size(b, size) == [b EXCEPT !.bar_size = size]

Bar_fg_color(b, color) == [b EXCEPT !.fg_color = color]

\* the Gauge's threshold used for the Bar: ticks below 2 draw nothing
Bar_tick_lines_from_two(b) ==
    IF b.ticks >= 2
    THEN [i \in 1..b.ticks |->
            [op |-> "tick_line", num |-> i, den |-> b.ticks + 1]]
    ELSE <<>>

\* tick lines at i / ticks: the last one falls on the end of the bar
Bar_tick_lines_to_end(b) ==
    IF b.ticks > 0
    THEN [i \in 1..b.ticks |->
            [op |-> "tick_line", num |-> i, den |-> b.ticks]]
    ELSE <<>>

\* `if self.ticks > 0 { for i in 1..self.ticks + 1 { .. line at i / (ticks + 1) .. } }`
Bar_tick_lines(b) ==
    IF b.ticks > 0
    THEN [i \in 1..b.ticks |->
            [op |-> "tick_line", num |-> i, den |-> b.ticks + 1]]
    ELSE <<>>

\* fill_rect of vertical_ui: fill_height = HEIGHT * (value - min) / (max - min),
\* drawn from bar_rect.max.y - fill_height (top, measured from bar_rect.min.y) down
Bar_fill_rect(b, value) ==
    LET num == BAR_HEIGHT * (value - b.min)
        den == b.max - b.min
    IN  [op |-> "fill", num |-> num, den |-> den,
         top |-> [num |-> BAR_HEIGHT * den - num, den |-> den],
         color |-> b.fg_color]

\* a vertical bar filled from the value as given, not as clamped
Bar_vertical_ops_unclamped(b, value) ==
    <<[op |-> "rect", color |-> "EXTREME_BG"],
      Bar_fill_rect(b, b.value),
      [op |-> "label", value |-> b.max],
      [op |-> "label", value |-> b.min],
      [op |-> "text", text |-> b.text]>>
    \o Bar_tick_lines(b)

\* Bar::vertical_ui, inside `if ui.is_rect_visible(rect)`
Bar_vertical_ops(b, value) ==
    <<[op |-> "rect", color |-> "EXTREME_BG"],
      Bar_fill_rect(b, value),
      [op |-> "label", value |-> b.max],
      [op |-> "label", value |-> b.min],
      [op |-> "text", text |-> b.text]>>
    \o Bar_tick_lines(b)

\* the horizontal branch of <Bar as Widget>::ui, inside `if ui.is_rect_visible(rect)`
Bar_horizontal_ops(b, value) ==
    <<[op |-> "label", value |-> b.min],
      \* v = (value - self.min) / range, handed to egui::ProgressBar::new
      [op |-> "fill", num |-> value - b.min, den |-> b.max - b.min,
       color |-> b.fg_color],
      [op |-> "label", value |-> b.max],
      [op |-> "text", text |-> b.text]>>
    \o Bar_tick_lines(b)

\* <Bar as Widget>::ui: clamp (which panics on min > max), then one orientation
Bar_ui_result(b, visible) ==
    IF ClampPanics(b.min, b.max)
    THEN [kind |-> "bar", self |-> b, panicked |-> TRUE, visible |-> visible,
          value |-> b.value, ops |-> <<>>]
    ELSE LET value == Clamp(b.value, b.min, b.max)
         IN  [kind |-> "bar", self |-> b, panicked |-> FALSE,
              visible |-> visible, value |-> value,
              ops |-> IF ~visible THEN <<>>
                      ELSE IF b.vertical.some THEN Bar_vertical_ops(b, value)
                      ELSE Bar_horizontal_ops(b, value)]

\* ------------------------------------------------------------ ToggleSwitch

ToggleSwitch_new ==
    [kind |-> "toggle",
     label |-> "None",
     color |-> "WHITE",
     style |-> "Button",
     size |-> None,
     font_size |-> 14]

ToggleSwitch_label(t, label) == [t EXCEPT !.label = label]

ToggleSwitch_style(t, style) == [t EXCEPT !.style = style]

ToggleSwitch_size(t, size) == [t EXCEPT !.size = Some(size)]

ToggleSwitch_color(t, color) == [t EXCEPT !.color = color]

ToggleSwitch_font_size(t, size) == [t EXCEPT !.font_size = size]

\* a click that switches on instead of negating
toggle_on_set(cur, clicked) == IF clicked THEN TRUE ELSE cur

\* a response marked changed on every call
toggle_changed_always(clicked) == TRUE

\* `if response.clicked() { *self.on = !*self.on; response.mark_changed(); }`
toggle_on(cur, clicked) == IF clicked THEN ~cur ELSE cur

toggle_changed(clicked) == clicked

\* the painting of ToggleSwitch::ui, inside `if ui.is_rect_visible(rect)`;
\* cur is `*self.on` as read there
ToggleSwitch_ops(t, cur) ==
    LET stroke == IF cur THEN "SUCCESS" ELSE "WARN"
    IN  (IF t.style = "Relay"
         THEN <<[op |-> "rect_stroke", color |-> stroke]>> ELSE <<>>)
        \o (IF t.style = "Valve"
            THEN <<[op |-> "rect_stroke", color |-> stroke]>> ELSE <<>>)
        \o <<[op |-> "animate", target |-> cur]>>
        \o (CASE t.style = "Button" ->
                   <<[op |-> "fill", color |-> IF cur THEN "SUCCESS" ELSE "GRAY"],
                     [op |-> "knob", color |-> "WHITE"]>>
              [] t.style = "Relay" ->
                   <<[op |-> "contacts", color |-> stroke],
                     [op |-> "animate", target |-> cur],
                     [op |-> "switch_line", color |-> stroke]>>
              [] t.style = "Valve" ->
                   <<[op |-> "valve_body", color |-> stroke],
                     [op |-> "animate", target |-> cur],
                     [op |-> "valve_circle"]>>
                   \o (IF ~cur THEN <<[op |-> "closed_line", color |-> stroke]>>
                       ELSE <<>>))
        \o (IF t.label # "None" THEN <<[op |-> "text", text |-> t.label]>>
            ELSE <<>>)

\* a ui that reports and paints the bool as it was before the click
ToggleSwitch_ui_result_stale(t, cur, clicked, visible) ==
    LET new_on == toggle_on(cur, clicked)
    IN  [kind |-> "toggle", self |-> t, panicked |-> FALSE,
         on_in |-> cur, on_out |-> new_on,
         clicked |-> clicked, changed |-> toggle_changed(clicked),
         info_selected |-> cur, visible |-> visible,
         ops |-> IF visible THEN ToggleSwitch_ops(t, cur) ELSE <<>>]

\* <ToggleSwitch as Widget>::ui on the bool `cur`, the host reporting `clicked`
ToggleSwitch_ui_result(t, cur, clicked, visible) ==
    LET new_on == toggle_on(cur, clicked)
    IN  [kind |-> "toggle", self |-> t, panicked |-> FALSE,
         on_in |-> cur, on_out |-> new_on,
         clicked |-> clicked, changed |-> toggle_changed(clicked),
         info_selected |-> new_on, visible |-> visible,
         ops |-> IF visible THEN ToggleSwitch_ops(t, new_on) ELSE <<>>]

\* ----------------------------------------------------------- state machine

NoOutput == [kind |-> "none", panicked |-> FALSE]

Init ==
    /\ on \in BOOLEAN
    /\ on0 = on
    /\ clicks = 0
    /\ frame = [drawn |-> 0, clicked |-> 0]
    /\ w = NoWidget
    /\ chain = 0
    /\ out = NoOutput

\* a panic inside ui unwinds the render pass: nothing runs after it
Running == ~out.panicked

\* `Widget::new(..)`: a fresh widget; the previous response is dropped
Start(widget) ==
    /\ Running
    /\ w.kind = "none"
    /\ w' = widget
    /\ chain' = 0
    /\ out' = NoOutput

\* one more builder call on the widget of the given kind
Build(kind, widget) ==
    /\ Running
    /\ w.kind = kind
    /\ chain < MaxChain
    /\ w' = widget
    /\ chain' = chain + 1
    /\ UNCHANGED <<on, on0, clicks, frame, out>>

GaugeNew ==
    /\ \E v \in GaugeValues : Start(Gauge_new(v))
    /\ UNCHANGED <<on, on0, clicks, frame>>

GaugeRange ==
    \E s \in RangeArgs, e \in RangeArgs : Build("gauge", Gauge_range(w, s, e))

GaugeAngleRange ==
    \E s \in AngleArgs, e \in AngleArgs : Build("gauge", Gauge_angle_range(w, s, e))

GaugeTicks == \E n \in TickArgs : Build("gauge", Gauge_ticks(w, n))

GaugePointerRadius ==
    \E r \in RadiusArgs : Build("gauge", Gauge_pointer_radius(w, r))

GaugeArrowLengthFactor ==
    \E f \in FactorArgs : Build("gauge", Gauge_arrow_length_factor(w, f))

GaugeText == \E t \in Labels : Build("gauge", Gauge_text(w, t))

GaugeUi ==
    /\ Running
    /\ w.kind = "gauge"
    /\ \E visible \in BOOLEAN : out' = Gauge_ui_result(w, visible)
    /\ w' = NoWidget
    /\ chain' = 0
    /\ UNCHANGED <<on, on0, clicks, frame>>

BarNew ==
    /\ \E v \in BarValues : Start(Bar_new(v))
    /\ UNCHANGED <<on, on0, clicks, frame>>

BarRange == \E s \in RangeArgs, e \in RangeArgs : Build("bar", Bar_range(w, s, e))

BarVertical == \E m \in WidthArgs : Build("bar", Bar_vertical(w, m))

BarTicks == \E n \in TickArgs : Build("bar", Bar_ticks(w, n))

BarUi ==
    /\ Running
    /\ w.kind = "bar"
    /\ \E visible \in BOOLEAN : out' = Bar_ui_result(w, visible)
    /\ w' = NoWidget
    /\ chain' = 0
    /\ UNCHANGED <<on, on0, clicks, frame>>

ToggleNew ==
    /\ frame.drawn < MaxPerFrame
    /\ Start(ToggleSwitch_new)
    /\ UNCHANGED <<on, on0, clicks, frame>>

ToggleLabel == \E l \in Labels : Build("toggle", ToggleSwitch_label(w, l))

ToggleStyle == \E st \in Styles : Build("toggle", ToggleSwitch_style(w, st))

ToggleSize == \E sz \in SizeArgs : Build("toggle", ToggleSwitch_size(w, sz))

\* ToggleSwitch::ui: the host decides whether the allocated rect was clicked
\* and whether it is visible
ToggleUi ==
    /\ Running
    /\ w.kind = "toggle"
    /\ \E clicked \in BOOLEAN, visible \in BOOLEAN :
         /\ clicked => clicks < MaxClicks
         /\ LET r == ToggleSwitch_ui_result(w, on, clicked, visible)
                n == IF clicked THEN 1 ELSE 0
            IN  /\ out' = r
                /\ on' = r.on_out
                /\ clicks' = clicks + n
                /\ frame' = [drawn |-> frame.drawn + 1,
                             clicked |-> frame.clicked + n]
    /\ w' = NoWidget
    /\ chain' = 0
    /\ UNCHANGED on0

\* MyApp::update returns: the next frame draws its widgets again
EndFrame ==
    /\ Running
    /\ w.kind = "none"
    /\ frame.drawn > 0
    /\ frame' = [drawn |-> 0, clicked |-> 0]
    /\ UNCHANGED <<on, on0, clicks, w, chain, out>>

\* the setters that only restyle a widget
GaugeSize == \E x \in GaugeSizeArgs : Build("gauge", Gauge_size(w, x))

GaugeBgColor == \E c \in ColorArgs : Build("gauge", Gauge_bg_color(w, c))

GaugeFgColor == \E c \in ColorArgs : Build("gauge", Gauge_fg_color(w, c))

GaugeTextColor == \E c \in ColorArgs : Build("gauge", Gauge_text_color(w, c))

GaugeStrokeWidth == \E x \in StrokeArgs : Build("gauge", Gauge_stroke_width(w, x))

BarText == \E t \in Labels : Build("bar", Bar_text(w, t))

BarFontSize == \E x \in FontArgs : Build("bar", Bar_font_size(w, x))

BarLabelSize == \E x \in FontArgs : Build("bar", Bar_label_size(w, x))

BarBarSize == \E x \in BarSizeArgs : Build("bar", Bar_bar_size(w, x))

BarFgColor == \E c \in ColorArgs : Build("bar", Bar_fg_color(w, c))

ToggleColor == \E c \in ColorArgs : Build("toggle", ToggleSwitch_color(w, c))

ToggleFontSize == \E x \in FontArgs : Build("toggle", ToggleSwitch_font_size(w, x))

NextStyle ==
    \/ GaugeSize
    \/ GaugeBgColor
    \/ GaugeFgColor
    \/ GaugeTextColor
    \/ GaugeStrokeWidth
    \/ BarText
    \/ BarFontSize
    \/ BarLabelSize
    \/ BarBarSize
    \/ BarFgColor
    \/ ToggleColor
    \/ ToggleFontSize

NextGauge ==
    \/ GaugeNew
    \/ GaugeRange
    \/ GaugeAngleRange
    \/ GaugeTicks
    \/ GaugePointerRadius
    \/ GaugeArrowLengthFactor
    \/ GaugeText
    \/ GaugeUi

NextBar ==
    \/ BarNew
    \/ BarRange
    \/ BarVertical
    \/ BarTicks
    \/ BarUi

NextToggle ==
    \/ ToggleNew
    \/ ToggleLabel
    \/ ToggleStyle
    \/ ToggleSize
    \/ ToggleUi
    \/ EndFrame

Next == NextGauge \/ NextBar \/ NextToggle \/ NextStyle

Spec == Init /\ [][Next]_vars

\* the toggle switches alone, frame after frame
SpecToggle == Init /\ [][NextToggle]_vars

\* the two display widgets alone
NextDraw == NextGauge \/ NextBar

SpecDraw == Init /\ [][NextDraw]_vars

\* the builder chains of the three widgets, every setter included
NextBuild ==
    \/ GaugeNew
    \/ GaugeRange
    \/ GaugeAngleRange
    \/ GaugeTicks
    \/ GaugePointerRadius
    \/ GaugeArrowLengthFactor
    \/ GaugeText
    \/ BarNew
    \/ BarRange
    \/ BarVertical
    \/ BarTicks
    \/ ToggleNew
    \/ ToggleLabel
    \/ ToggleStyle
    \/ ToggleSize
    \/ NextStyle

SpecBuild == Init /\ [][NextBuild]_vars

\* Gauge::paint_arc on its own, called once on a pair of angles
PaintArc ==
    /\ Running
    /\ out = NoOutput
    /\ \E start_angle \in ArcStarts, end_angle \in ArcAngles :
         out' = [kind |-> "arc", panicked |-> FALSE,
                 path |-> paint_arc(start_angle, end_angle, "SUCCESS")]
    /\ UNCHANGED <<on, on0, clicks, frame, w, chain>>

NextArc == PaintArc

SpecArc == Init /\ [][NextArc]_vars

\* ------------------------------------------------------------------ claims

OpsOf(kind) == SelectSeq(out.ops, LAMBDA o : o.op = kind)

IsDraw == out.kind \in {"bar", "gauge"}

RangeLo == IF out.kind = "bar" THEN out.self.min ELSE out.self.value_range.start

RangeHi == IF out.kind = "bar" THEN out.self.max ELSE out.self.value_range.end

Odd(n) == n % 2 = 1

Min(a, b) == IF a <= b THEN a ELSE b

\* C1: every ToggleSwitch::ui call that reports a click negates the bound
\* boolean exactly once and marks the response changed; over any run the
\* boolean equals its initial value flipped once per reported click.
C1_FlipOncePerClick ==
    /\ on = (IF Odd(clicks) THEN ~on0 ELSE on0)
    /\ (out.kind = "toggle" /\ out.clicked) =>
           /\ out.on_out = ~out.on_in
           /\ out.changed
           /\ on = out.on_out

\* two frames, the second drawing several switches of which one was clicked:
\* two clicks in all, so the boolean is back at its initial value
C1_Witness ==
    /\ out.kind = "toggle"
    /\ out.clicked
    /\ clicks = 2
    /\ frame.drawn >= 2
    /\ frame.clicked = 1
    /\ on = on0

\* C2: a ToggleSwitch::ui call that reports no click leaves the bound boolean
\* as it was and does not mark the response changed, whatever the widget's
\* style, size, label or visibility; and the boolean changes in no other step
\* than a ToggleSwitch::ui call that reports a click.
C2_NoClickNoChange ==
    /\ [](out.kind = "toggle" /\ ~out.clicked =>
            /\ out.on_out = out.on_in
            /\ ~out.changed
            /\ on = out.on_in)
    /\ [][on' # on => (out'.kind = "toggle" /\ out'.clicked)]_vars

\* an invisible, sized Valve switch that was drawn and not clicked
C2_Witness ==
    /\ out.kind = "toggle"
    /\ ~out.clicked
    /\ ~out.visible
    /\ out.self.style = "Valve"
    /\ out.self.size.some

ProbeValues == 0..20

\* the values of ProbeValues between the two ends of g's value range
Inside(g) ==
    {v \in ProbeValues :
       /\ Min(g.value_range.start, g.value_range.end) <= v
       /\ v <= Max(g.value_range.start, g.value_range.end)}

\* value_to_angle over the probed values inside g's value range
AngleGraph(g) == {[v |-> v, angle |-> value_to_angle(g, v, 1)] : v \in Inside(g)}

\* C4: with a value range start < end and an angle range start <= end,
\* value_to_angle never grows with the value: v1 <= v2 inside the value range
\* gives value_to_angle(v1) >= value_to_angle(v2), truncation included.
C4_Monotonic ==
    (/\ out.kind = "gauge"
     /\ out.self.value_range.start < out.self.value_range.end
     /\ out.self.angle_range.start <= out.self.angle_range.end) =>
        \A p1 \in AngleGraph(out.self), p2 \in AngleGraph(out.self) :
          p1.v <= p2.v => p1.angle >= p2.angle

\* a painted gauge where a larger value has a strictly smaller angle and two
\* other values share one
C4_Witness ==
    /\ out.kind = "gauge"
    /\ out.visible
    /\ out.self.value_range = [start |-> 0, end |-> 20]
    /\ out.self.angle_range = [start |-> 0, end |-> 10]
    /\ value_to_angle(out.self, 0, 1) > value_to_angle(out.self, 20, 1)
    /\ value_to_angle(out.self, 1, 1) = value_to_angle(out.self, 2, 1)

\* C5 as stated: with non-zero value and angle spans, two distinct values
\* inside the value range map to distinct angles.
C5_Injective ==
    (/\ out.kind = "gauge"
     /\ out.self.value_range.start # out.self.value_range.end
     /\ out.self.angle_range.start # out.self.angle_range.end) =>
        \A p1 \in AngleGraph(out.self), p2 \in AngleGraph(out.self) :
          p1.v # p2.v => p1.angle # p2.angle

\* C5 amended: value_to_angle is invertible only up to its truncation to whole
\* degrees: with non-zero spans, two values inside the value range whose
\* untruncated angles lie at least 3 degrees apart map to distinct angles.
C5_InjectiveUpToTruncation ==
    (/\ out.kind = "gauge"
     /\ out.self.value_range.start # out.self.value_range.end
     /\ out.self.angle_range.start # out.self.angle_range.end) =>
        LET g == out.self
            vspan == Abs(g.value_range.end - g.value_range.start)
            aspan == Abs(g.angle_range.end - g.angle_range.start)
        IN  \A p1 \in AngleGraph(g), p2 \in AngleGraph(g) :
              Abs(p1.v - p2.v) * aspan >= 3 * vspan => p1.angle # p2.angle

\* a painted gauge, 20 values on 10 degrees: 0 and 6 are 3 degrees apart and
\* get different angles, 1 and 2 are half a degree apart and share one
C5_Witness ==
    /\ out.kind = "gauge"
    /\ out.visible
    /\ out.self.value_range = [start |-> 0, end |-> 20]
    /\ out.self.angle_range = [start |-> 0, end |-> 10]
    /\ value_to_angle(out.self, 0, 1) = 10
    /\ value_to_angle(out.self, 6, 1) = 7
    /\ value_to_angle(out.self, 1, 1) = 9
    /\ value_to_angle(out.self, 2, 1) = 9

\* C6 as stated: with ticks set to 0 or 1 neither Gauge::paint nor Bar::ui
\* draws a tick line or a tick label.
C6_NoTicksBelowTwo ==
    (IsDraw /\ out.self.ticks \in {0, 1}) =>
        OpsOf("tick_line") = <<>> /\ OpsOf("tick_text") = <<>>

\* C6 amended: a tick count of 0 or 1 suppresses the ticks of the Gauge and a
\* tick count of 0 those of the Bar; a visible Bar with ticks set to 1 draws
\* exactly one tick line, in the middle of the bar, in both orientations.
C6_TickThresholds ==
    /\ (out.kind = "gauge" /\ out.self.ticks \in {0, 1}) =>
           OpsOf("tick_line") = <<>> /\ OpsOf("tick_text") = <<>>
    /\ (out.kind = "bar" /\ out.self.ticks = 0) => OpsOf("tick_line") = <<>>
    /\ (out.kind = "bar" /\ out.self.ticks = 1 /\ out.visible /\ ~out.panicked) =>
           OpsOf("tick_line") = <<[op |-> "tick_line", num |-> 1, den |-> 2]>>

\* a visible vertical Bar with one tick, drawn
C6_Witness ==
    /\ out.kind = "bar"
    /\ out.visible
    /\ ~out.panicked
    /\ out.self.vertical.some
    /\ out.self.ticks = 1
    /\ Len(OpsOf("tick_line")) = 1

GaugeInRange(g) ==
    /\ -360 <= g.angle_range.start /\ g.angle_range.start <= 360
    /\ -360 <= g.angle_range.end /\ g.angle_range.end <= 360
    /\ 0 <= g.arrow_length_factor /\ g.arrow_length_factor <= 130
    /\ g.pointer_radius >= 100
    /\ -720 <= g.angle_range.end - g.angle_range.start
    /\ g.angle_range.end - g.angle_range.start <= 720
    /\ angle_span(g) = g.angle_range.end - g.angle_range.start

C9_ZeroSpanUnguarded ==
    (IsDraw /\ RangeLo = RangeHi) =>
        /\ ~out.panicked
        /\ (out.kind = "bar" /\ out.visible) =>
              /\ Len(OpsOf("fill")) = 1
              /\ OpsOf("fill")[1].num = 0
              /\ OpsOf("fill")[1].den = 0
              /\ Len(out.ops) =
                   (IF out.self.vertical.some THEN 5 ELSE 4) + out.self.ticks
        /\ (out.kind = "gauge" /\ out.visible) =>
              LET g == out.self
                  skipped == IF g.angle_range.end - g.angle_range.start >= 360
                             THEN 1 ELSE 0
                  nticks == IF g.ticks >= 2 THEN g.ticks - skipped ELSE 0
              IN  /\ normalized(g, out.value, 1) = [num |-> 0, den |-> 0]
                  /\ \A i \in 1..Len(out.ops) :
                       out.ops[i].op \in {"arrow_line", "tick_line", "tick_text"}
                         => out.ops[i].angle = 0
                  /\ Len(OpsOf("arrow_line")) + Len(OpsOf("point")) \in {1, 2}
                  /\ Len(OpsOf("arrow_line")) = 1 \/ OpsOf("point")[1].angle = 0
                  /\ Len(OpsOf("tick_line")) = nticks
                  /\ Len(OpsOf("tick_text")) = nticks
                  /\ (g.text # "None") = (Len(OpsOf("text")) = 1)
                  /\ (g.angle_range.start < g.angle_range.end)
                       = (\E i \in 1..Len(out.ops) :
                            /\ out.ops[i].op = "arc"
                            /\ out.ops[i].from = g.angle_range.start)

\* a painted gauge over the range 10..=10 with its nine default ticks
C9_Witness ==
    /\ out.kind = "gauge"
    /\ out.visible
    /\ out.self.value_range = [start |-> 10, end |-> 10]
    /\ Len(OpsOf("tick_line")) = 9
    /\ Len(OpsOf("arrow_line")) = 1

\* C10 as stated: for every angle range with distinct ends, start < end or
\* start > end, Gauge::paint draws a background arc spanning the two angles.
C10_BackgroundArcBothDirections ==
    (/\ out.kind = "gauge"
     /\ out.visible
     /\ ~out.panicked
     /\ out.self.angle_range.start # out.self.angle_range.end) =>
        \E i \in 1..Len(out.ops) :
          /\ out.ops[i].op = "arc"
          /\ out.ops[i].color = "EXTREME_BG"
          /\ {out.ops[i].from, out.ops[i].to}
               = {out.self.angle_range.start, out.self.angle_range.end}

\* b is a with field f set to val and every other field as in a
SetOnly(a, b, f, val) ==
    /\ DOMAIN b = DOMAIN a
    /\ b[f] = val
    /\ \A h \in DOMAIN a \ {f} : b[h] = a[h]

Within(x, lo, hi) == IF x < lo THEN lo ELSE IF x > hi THEN hi ELSE x

\* what one builder call does to the widget, setter by setter
C11_SetterStep ==
    /\ GaugeRange => \E s \in RangeArgs, e \in RangeArgs :
         SetOnly(w, w', "value_range", [start |-> s, end |-> e])
    /\ GaugeAngleRange => \E s \in AngleArgs, e \in AngleArgs :
         SetOnly(w, w', "angle_range",
                 [start |-> Within(s, -360, 360), end |-> Within(e, -360, 360)])
    /\ GaugeTicks => \E n \in TickArgs : SetOnly(w, w', "ticks", n)
    /\ GaugePointerRadius => \E r \in RadiusArgs :
         SetOnly(w, w', "pointer_radius", IF r < 100 THEN 100 ELSE r)
    /\ GaugeArrowLengthFactor => \E f \in FactorArgs :
         SetOnly(w, w', "arrow_length_factor", Within(f, 0, 130))
    /\ GaugeText => \E t \in Labels : SetOnly(w, w', "text", t)
    /\ GaugeSize => \E x \in GaugeSizeArgs : SetOnly(w, w', "size", x)
    /\ GaugeBgColor => \E c \in ColorArgs : SetOnly(w, w', "bg_color", c)
    /\ GaugeFgColor => \E c \in ColorArgs : SetOnly(w, w', "fg_color", c)
    /\ GaugeTextColor => \E c \in ColorArgs : SetOnly(w, w', "text_color", c)
    /\ GaugeStrokeWidth => \E x \in StrokeArgs : SetOnly(w, w', "stroke_width", x)
    /\ BarRange => \E s \in RangeArgs, e \in RangeArgs :
         /\ DOMAIN w' = DOMAIN w
         /\ w'.min = s /\ w'.max = e
         /\ \A h \in DOMAIN w \ {"min", "max"} : w'[h] = w[h]
    /\ BarVertical => \E m \in WidthArgs :
         SetOnly(w, w', "vertical", [some |-> TRUE, v |-> m])
    /\ BarTicks => \E n \in TickArgs : SetOnly(w, w', "ticks", n)
    /\ BarText => \E t \in Labels : SetOnly(w, w', "text", t)
    /\ BarFontSize => \E x \in FontArgs : SetOnly(w, w', "font_size", x)
    /\ BarLabelSize => \E x \in FontArgs : SetOnly(w, w', "label_size", x)
    /\ BarBarSize => \E x \in BarSizeArgs : SetOnly(w, w', "bar_size", x)
    /\ BarFgColor => \E c \in ColorArgs : SetOnly(w, w', "fg_color", c)
    /\ ToggleLabel => \E l \in Labels : SetOnly(w, w', "label", l)
    /\ ToggleStyle => \E st \in Styles : SetOnly(w, w', "style", st)
    /\ ToggleSize => \E sz \in SizeArgs :
         SetOnly(w, w', "size", [some |-> TRUE, v |-> sz])
    /\ ToggleColor => \E c \in ColorArgs : SetOnly(w, w', "color", c)
    /\ ToggleFontSize => \E x \in FontArgs : SetOnly(w, w', "font_size", x)
    /\ (w.kind = "toggle" /\ w'.kind = "toggle") => on' = on

\* the widget new() returns for the value w was made with
Defaults ==
    CASE w.kind = "gauge" -> Gauge_new(w.value)
      [] w.kind = "bar" -> Bar_new(w.value)
      [] w.kind = "toggle" -> ToggleSwitch_new

\* the setters whose fields differ from new(): Bar::range sets min and max
Overridden ==
    {f \in DOMAIN w \ {"max"} :
       \/ w[f] # Defaults[f]
       \/ w.kind = "bar" /\ f = "min" /\ w.max # Defaults.max}

\* C11: every builder setter of Bar, Gauge and ToggleSwitch changes only the
\* field(s) it names, to its argument after the setter's own clamping, and
\* leaves every other field and the ToggleSwitch's boolean as they were; so
\* after a chain of n setters at most n setters' fields differ from new().
C11_SettersSetOnlyTheirField ==
    /\ [](w.kind # "none" => Cardinality(Overridden) <= chain)
    /\ [][C11_SetterStep]_vars

\* a gauge after angle_range(-400..=400) and stroke_width(3.0): the clamped
\* range and the stroke width are set, everything else is as new() left it
C11_Witness ==
    /\ w.kind = "gauge"
    /\ chain = 2
    /\ w.angle_range = [start |-> -360, end |-> 360]
    /\ w.stroke_width = 300
    /\ Overridden = {"angle_range", "stroke_width"}

\* the fill a visible Bar like b, with value v and the given orientation, draws
FillOf(b, v, vertical) ==
    LET bar == [b EXCEPT !.value = v,
                         !.vertical = IF vertical THEN Some(80) ELSE None]
        ops == Bar_ui_result(bar, TRUE).ops
    IN  SelectSeq(ops, LAMBDA o : o.op = "fill")[1]

\* C12: for a Bar with min < max both orientations draw the fill fraction
\* f = (clamp(v, min, max) - min) / (max - min): the horizontal bar hands f to
\* the progress bar, the vertical bar fills 240 * f up from the bottom; f is
\* in [0, 1], 0 for v <= min, 1 for v >= max, and never decreases as v grows.
C12_FillFraction ==
    (out.kind = "bar" /\ out.visible /\ out.self.min < out.self.max) =>
        LET b == out.self
            span == b.max - b.min
            cv == Within(b.value, b.min, b.max)
            scale == IF b.vertical.some THEN 240 ELSE 1
            fill == OpsOf("fill")[1]
        IN  /\ Len(OpsOf("fill")) = 1
            /\ fill.den > 0
            /\ fill.num * span = scale * (cv - b.min) * fill.den
            /\ 0 <= fill.num /\ fill.num <= scale * fill.den
            /\ b.value <= b.min => fill.num = 0
            /\ b.value >= b.max => fill.num = scale * fill.den
            /\ b.vertical.some =>
                 /\ fill.top.den = fill.den
                 /\ fill.top.num + fill.num = 240 * fill.den
            /\ \A v \in BarValues :
                 /\ FillOf(b, v, TRUE).den = FillOf(b, v, FALSE).den
                 /\ FillOf(b, v, TRUE).num = 240 * FillOf(b, v, FALSE).num
            /\ \A v1 \in BarValues, v2 \in BarValues :
                 v1 <= v2 =>
                   FillOf(b, v1, b.vertical.some).num
                     <= FillOf(b, v2, b.vertical.some).num

\* a visible vertical Bar over 0..=20 with the value 3: 36 of the 240 filled
C12_Witness ==
    /\ out.kind = "bar"
    /\ out.visible
    /\ out.self.vertical.some
    /\ out.self.min = 0 /\ out.self.max = 20
    /\ out.self.value = 3
    /\ OpsOf("fill")[1].num = 720
    /\ OpsOf("fill")[1].den = 20

\* C13: for a Gauge with value range start < end and angle range start <= end
\* the angle of the clamped value lies in [min_angle, max_angle] and the
\* foreground arc [current, max_angle] lies inside the background arc
\* [min_angle, max_angle]; at the range minimum current = max_angle and no
\* foreground arc is drawn, at the range maximum current = min_angle and the
\* foreground arc covers the whole background arc.
C13_ForegroundInsideBackground ==
    (/\ out.kind = "gauge" /\ out.visible /\ ~out.panicked
     /\ out.self.value_range.start < out.self.value_range.end
     /\ out.self.angle_range.start <= out.self.angle_range.end) =>
        LET g == out.self
            lo == g.angle_range.start
            hi == g.angle_range.end
            cur == value_to_angle(g, out.value, 1)
            arcs == OpsOf("arc")
            bg == IF lo < hi THEN 1 ELSE 0
            fg == IF cur < hi THEN 1 ELSE 0
        IN  /\ lo <= cur /\ cur <= hi
            /\ Len(arcs) = bg + fg
            /\ \A i \in 1..Len(arcs) :
                 /\ lo <= arcs[i].from /\ arcs[i].to = hi
                 /\ \A k \in 1..Len(arcs[i].points) :
                      lo <= arcs[i].points[k] /\ arcs[i].points[k] <= hi
            /\ bg = 1 => arcs[1].from = lo
            /\ fg = 1 => /\ bg = 1
                         /\ arcs[2].from = cur
                         /\ arcs[2].color = g.fg_color
            /\ out.value = g.value_range.start => (cur = hi /\ fg = 0)
            /\ out.value = g.value_range.end =>
                 /\ cur = lo
                 /\ fg = bg
                 /\ fg = 1 => arcs[2].points = arcs[1].points

\* a value clamped to the top of 0..=20: two arcs over the same 0..180 path
C13_Witness ==
    /\ out.kind = "gauge" /\ out.visible /\ ~out.panicked
    /\ out.self.value = 25 /\ out.value = 20
    /\ out.self.value_range = [start |-> 0, end |-> 20]
    /\ out.self.angle_range = [start |-> 0, end |-> 180]
    /\ Len(OpsOf("arc")) = 2
    /\ OpsOf("arc")[2].from = 0
    /\ OpsOf("arc")[2].points = OpsOf("arc")[1].points

\* the tick lines a visible Bar like b draws in the given orientation
TickLinesOf(b, vertical) ==
    LET bar == [b EXCEPT !.vertical = IF vertical THEN Some(80) ELSE None]
        ops == Bar_ui_result(bar, TRUE).ops
    IN  SelectSeq(ops, LAMBDA o : o.op = "tick_line")

\* C14: a Bar's tick count is 0 by default, which draws no tick line; a count
\* n >= 1 draws exactly n tick lines, at the fractions i / (n + 1) of the bar
\* for i = 1..n: strictly between the two ends, evenly spaced, and the same
\* in both orientations.
C14_BarTickFractions ==
    /\ \A v \in BarValues : Bar_new(v).ticks = 0
    /\ (out.kind = "bar" /\ out.visible /\ ~out.panicked) =>
        LET n == out.self.ticks
            lines == OpsOf("tick_line")
        IN  /\ Len(lines) = n
            /\ \A i \in 1..Len(lines) :
                 /\ lines[i].den > 0
                 /\ lines[i].num * (n + 1) = i * lines[i].den
                 /\ 0 < lines[i].num /\ lines[i].num < lines[i].den
                 /\ i > 1 =>
                      (lines[i].num * lines[i - 1].den
                         - lines[i - 1].num * lines[i].den) * (n + 1)
                        = lines[i].den * lines[i - 1].den
            /\ TickLinesOf(out.self, TRUE) = TickLinesOf(out.self, FALSE)
            /\ TickLinesOf(out.self, out.self.vertical.some) = lines

\* a visible horizontal Bar with three ticks: lines at 1/4, 2/4 and 3/4
C14_Witness ==
    /\ out.kind = "bar" /\ out.visible /\ ~out.panicked
    /\ ~out.self.vertical.some
    /\ out.self.ticks = 3
    /\ Len(OpsOf("tick_line")) = 3
    /\ OpsOf("tick_line")[3].num = 3 /\ OpsOf("tick_line")[3].den = 4

\* C15: in the frame in which ToggleSwitch::ui is told of a click, everything
\* it reports and paints uses the bool as flipped by that click: the
\* accessibility info, the stroke colour (SUCCESS on, WARN off), the button's
\* fill, the valve's closed line and every animation target.
C15_OutputUsesFlippedValue ==
    (out.kind = "toggle" /\ out.clicked) =>
        LET now == out.on_out
            stroke == IF now THEN "SUCCESS" ELSE "WARN"
            Stroked == {"rect_stroke", "contacts", "switch_line",
                        "valve_body", "closed_line"}
        IN  /\ now = ~out.on_in
            /\ on = now
            /\ out.info_selected = now
            /\ \A i \in 1..Len(out.ops) :
                 /\ out.ops[i].op = "animate" => out.ops[i].target = now
                 /\ out.ops[i].op \in Stroked => out.ops[i].color = stroke
                 /\ out.ops[i].op = "fill" =>
                      out.ops[i].color = IF now THEN "SUCCESS" ELSE "GRAY"
            /\ out.visible =>
                 /\ OpsOf("animate") # <<>>
                 /\ (OpsOf("closed_line") # <<>>)
                      <=> (out.self.style = "Valve" /\ ~now)
                 /\ Len(OpsOf("fill")) = IF out.self.style = "Button" THEN 1 ELSE 0

\* a click closes an open valve: the closed line is drawn, in WARN, at once
C15_Witness ==
    /\ out.kind = "toggle" /\ out.clicked /\ out.visible
    /\ out.self.style = "Valve"
    /\ out.on_in /\ ~out.on_out
    /\ ~out.info_selected
    /\ Len(OpsOf("closed_line")) = 1
    /\ OpsOf("closed_line")[1].color = "WARN"

\* C16 as stated: Bar::ui and Gauge::ui return for every range that range()
\* stores, a range with start > end included: the bounds handed to clamp
\* satisfy min <= max and ui does not panic.
C16_UiNeverPanics ==
    IsDraw => (RangeLo <= RangeHi /\ ~out.panicked)

\* C17: for -360 <= start_angle < end_angle <= 360 the path of paint_arc, built
\* with step = max(1, (end_angle - start_angle) / 30), starts at start_angle,
\* ends exactly at end_angle, has strictly increasing angles (no point twice,
\* also when the span is a multiple of the step) and no two consecutive
\* points more than step apart; for start_angle >= end_angle nothing is drawn.
C17_ArcPath ==
    out.kind = "arc" =>
        LET a == out.path
            span == a.to - a.from
            n == Len(a.points)
        IN  IF a.from < a.to
            THEN /\ a.drawn
                 /\ a.step >= 1
                 /\ \/ span < 30 /\ a.step = 1
                    \/ a.step * 30 <= span /\ span < (a.step + 1) * 30
                 /\ n >= 2
                 /\ a.points[1] = a.from
                 /\ a.points[n] = a.to
                 /\ \A k \in 1..(n - 1) :
                      /\ a.points[k] < a.points[k + 1]
                      /\ a.points[k + 1] - a.points[k] <= a.step
            ELSE ~a.drawn /\ a.points = <<>>

\* 0..90: step 3 divides the span, so the loop itself ends on 90: 31 points
C17_Witness ==
    /\ out.kind = "arc"
    /\ out.path.from = 0 /\ out.path.to = 90
    /\ out.path.step = 3
    /\ Len(out.path.points) = 31
    /\ out.path.points[30] = 87
    /\ out.path.points[31] = 90

\* the arithmetic of one paint_arc call, a: past the early return the span
\* fits an i16 and is positive, the step is at least 1, the loop pushes
\* angles exactly step apart and leaves with its variable in
\* (end_angle, end_angle + step], which is at most 384
ArcCallSafe(a) ==
    a.from < a.to =>
        LET span == a.to - a.from
            pushed == IF a.angle - a.step < a.to
                      THEN Len(a.points) - 1 ELSE Len(a.points)
        IN  /\ span <= I16_MAX
            /\ span >= 0
            /\ a.step >= 1
            /\ pushed >= 1
            /\ \A k \in 1..pushed : a.points[k] = a.from + (k - 1) * a.step
            /\ a.angle = a.from + pushed * a.step
            /\ a.angle > a.to
            /\ a.angle <= a.to + a.step
            /\ a.to + a.step <= 384
            /\ a.angle <= I16_MAX

\* C18: both paint_arc calls of Gauge::paint end without an arithmetic
\* failure: the step is >= 1, so the loop advances and ends; the usize
\* conversions see only non-negative numbers and the divisor is not zero;
\* the i16 loop variable stays at or below end_angle + step <= 384.
C18_ArcCallsSafe ==
    (out.kind = "gauge" /\ out.visible /\ ~out.panicked) =>
        LET g == out.self
            current_angle == value_to_angle(g, out.value, 1)
        IN  /\ ArcCallSafe(paint_arc(g.angle_range.start, g.angle_range.end,
                                     "EXTREME_BG"))
            /\ ArcCallSafe(paint_arc(current_angle, g.angle_range.end,
                                     g.fg_color))
            /\ \A i \in 1..Len(OpsOf("arc")) : ArcCallSafe(OpsOf("arc")[i])

\* the widest angle range, -360..=360: step 24, the loop leaves at 384
C18_Witness ==
    /\ out.kind = "gauge" /\ out.visible /\ ~out.panicked
    /\ out.self.angle_range = [start |-> -360, end |-> 360]
    /\ OpsOf("arc") # <<>>
    /\ OpsOf("arc")[1].step = 24
    /\ OpsOf("arc")[1].angle = 384

====
